---------------------------- MODULE Spec2Model ----------------------------
(***************************************************************************)
(* Model of the enhanced ChuhaBot swarm controller                         *)
(* (controllers/enhanced_swarm_framework/enhanced_chuha_controller.py and  *)
(* enhanced_swarm_framework.py).                                           *)
(*                                                                         *)
(* Units.  The code computes in floating point; the model computes in      *)
(* integers:                                                               *)
(*   positions, distances          millimetres                             *)
(*   velocities                    micrometres per second                  *)
(*   angles                        milliradians                            *)
(*   formation quality             thousandths (0..1000)                   *)
(*   behaviour weights             units of 0.00001                        *)
(*   EPSILON, collision_count      tenths                                  *)
(*   exploration_coverage          hundredths                              *)
(*   time_in_formation             units                                   *)
(* Square roots are floor square roots, sines follow Bhaskara's rational   *)
(* approximation (error below 0.2 percent), quotients are floored.         *)
(***************************************************************************)
EXTENDS Integers, Sequences, FiniteSets, TLC

VARIABLES
    has_lidar,                    \* self.has_lidar
    has_display,                  \* self.has_display
    CHUHABOT_FUNCTIONS_AVAILABLE, \* module flag: the detection pipeline imported
    step_count,                   \* self.step_count
    mission_mode,                 \* self.mission_mode
    formation_type,               \* self.formation_type
    neighbor_history,             \* self.neighbor_history
    EPSILON,                      \* self.EPSILON, in tenths (0: attribute not set)
    performance_metrics,          \* self.performance_metrics
    last_neighbor_count,          \* self.last_neighbor_count
    weights,                      \* self.swarm_controller.weights
    behaviors,                    \* self.swarm_controller.behaviors
    neighbors,                    \* run_step's local: the neighbor list of the last step
    obstacles,                    \* run_step's local: the obstacle list of the last step
    force,                        \* run_step's local: the net force of the last step
    last_vel,                     \* (self._last_left_vel, self._last_right_vel), the motor command
    display_frame,                \* TRUE when the last step drew a frame on the display
    status,                       \* "running", or "error" once run_step has raised
    scene,                        \* the sensor sample the last step read
    last_call,                    \* the last operation invoked on the controller
    robots,                       \* HybridSwarmController.robots
    message_buffer                \* HybridSwarmController.message_buffer

vars == <<has_lidar, has_display, CHUHABOT_FUNCTIONS_AVAILABLE, step_count,
          mission_mode, formation_type, neighbor_history, EPSILON,
          performance_metrics, last_neighbor_count, weights, behaviors,
          neighbors, obstacles, force, last_vel, display_frame, status, scene,
          last_call, robots, message_buffer>>

hardware == <<has_lidar, has_display, CHUHABOT_FUNCTIONS_AVAILABLE>>

hybrid == <<robots, message_buffer>>

\* The attributes of the ChuhaEnhancedController and the locals of its last step.
controller == <<hardware, step_count, mission_mode, formation_type, neighbor_history,
                EPSILON, performance_metrics, last_neighbor_count, weights,
                behaviors, neighbors, obstacles, force, last_vel, display_frame,
                status, scene>>

----------------------------------------------------------------------------
(* Bounds of the model.                                                    *)

\* Control steps explored with a freely changing scene.
MaxSteps == 12

\* Control steps explored when a client also switches the mission mode.
MaxApiSteps == 3

\* Control steps explored with a scene that is held between change points.
MaxLongSteps == 1610

\* Steps for which the environment holds a scene in the long runs.
SceneHold == 800

\* Control steps explored with neighbors that move between steps.
MaxTrackSteps == 5

\* Control steps explored when a client switches the mission mode between
\* steps with moving neighbors.
MaxOpsSteps == 3

\* Longest list of range points given to one obstacle detection.
MaxPoints == 3

\* Steps of a run in which drawing succeeds or fails.
MaxDisplaySteps == 4

\* Iterations of main's control loop explored.
MaxMainSteps == 1002

\* Steps between two formation switches of main.
CycleHold == 500

\* Longest message buffer a broadcast of the hybrid controller may fill.
MaxBuffer == 2

\* Control steps explored in the runs that exercise the auto-tuning.
MaxTuneSteps == 805

\* Steps between two auto-tunings: the environment may change the scene three
\* steps before each of them.
TuneHold == 200

----------------------------------------------------------------------------
(* Arithmetic helpers.                                                     *)

Abs(x) == IF x < 0 THEN -x ELSE x

Max(a, b) == IF a >= b THEN a ELSE b

Min(a, b) == IF a <= b THEN a ELSE b

RECURSIVE SqrtSearch(_, _, _)
SqrtSearch(n, lo, hi) ==
    IF lo >= hi THEN lo
    ELSE LET mid == (lo + hi + 1) \div 2
         IN  IF mid * mid <= n THEN SqrtSearch(n, mid, hi)
                               ELSE SqrtSearch(n, lo, mid - 1)

\* math.sqrt on a non-negative integer, floored (n < 2^31, so the root is below 46341).
ISqrt(n) == SqrtSearch(n, 0, Min(n, 46340))

RECURSIVE SumSeq(_)
SumSeq(s) == IF s = <<>> THEN 0 ELSE Head(s) + SumSeq(Tail(s))

\* math.sqrt(dx**2 + dy**2) between two points, in mm.
Distance(p, q) == ISqrt((p[1] - q[1]) * (p[1] - q[1]) + (p[2] - q[2]) * (p[2] - q[2]))

\* distance < r, decided exactly on the squares.
Within(p, q, r) ==
    (p[1] - q[1]) * (p[1] - q[1]) + (p[2] - q[2]) * (p[2] - q[2]) < r * r

Origin == <<0, 0>>

\* math.sin of an angle a in 0..6283 mrad, in thousandths (Bhaskara I).
SinMilli(a) ==
    LET x == IF a <= 3142 THEN a ELSE a - 3142
        p == (x * (3142 - x)) \div 100
        v == (16000 * p) \div ((49348022 \div 100) - 4 * p)
    IN  IF a <= 3142 THEN v ELSE -v

\* math.cos of an angle a in 0..6283 mrad, in thousandths.
CosMilli(a) == SinMilli((a + 1571) % 6283)

----------------------------------------------------------------------------
(* Neighbor tracker.                                                       *)

\* int(robot.getBasicTimeStep()), in milliseconds.
timestep == 32

\* SwarmAgent: the fields the controller reads (heading, id and role are
\* written but never read by any behaviour).
SwarmAgent(pos, vel) == [position |-> pos, velocity |-> vel]

\* The i-th (i = 0, 1) mock neighbor of _simulate_neighbors at step count step.
mock_neighbor(step, i) ==
    LET angle    == ((step * 10000 + i * 3141593) % 6283185) \div 1000
        distance == 300 + (100 * SinMilli(((step * 20000) % 6283185) \div 1000)) \div 1000
        x        == (distance * CosMilli(angle)) \div 1000
        y        == (distance * SinMilli(angle)) \div 1000
    IN  SwarmAgent(<<x, y>>, <<0, 0>>)

\* Variant: the mock neighbors appear one step early (>= for >).
simulate_neighbors_early(step) ==
    IF step >= 50 THEN <<mock_neighbor(step, 0), mock_neighbor(step, 1)>> ELSE <<>>

\* _simulate_neighbors: two mock neighbors once step_count > 50, none before.
simulate_neighbors(step) ==
    IF step > 50 THEN <<mock_neighbor(step, 0), mock_neighbor(step, 1)>> ELSE <<>>

\* Variant: the previous position is taken from the newest snapshot
\* (neighbor_history[-1]) instead of the second-to-last one.
estimate_neighbor_velocity_newest(history, neighbor_id, current_pos) ==
    IF Len(history) < 2 THEN <<0, 0>>
    ELSE LET prev == history[Len(history)]
         IN  IF neighbor_id < Len(prev)
             THEN LET prev_pos == prev[neighbor_id + 1].position
                  IN  << ((current_pos[1] - prev_pos[1]) * 1000000) \div timestep,
                         ((current_pos[2] - prev_pos[2]) * 1000000) \div timestep >>
             ELSE <<0, 0>>

\* _estimate_neighbor_velocity: neighbor_id is the 0-based list index.
estimate_neighbor_velocity(history, neighbor_id, current_pos) ==
    IF Len(history) < 2 THEN <<0, 0>>
    ELSE LET prev == history[Len(history) - 1]      \* self.neighbor_history[-2:][0]
         IN  IF neighbor_id < Len(prev)
             THEN LET prev_pos == prev[neighbor_id + 1].position
                  IN  << ((current_pos[1] - prev_pos[1]) * 1000000) \div timestep,
                         ((current_pos[2] - prev_pos[2]) * 1000000) \div timestep >>
             ELSE <<0, 0>>

\* Variant: the history is never trimmed.
update_neighbor_history_untrimmed(history, nbrs) == Append(history, nbrs)

\* Variant: the newest entry is dropped instead of the oldest (pop() for pop(0)).
update_neighbor_history_drop_newest(history, nbrs) ==
    LET appended == Append(history, nbrs)
    IN  IF Len(appended) > 10 THEN SubSeq(appended, 1, 10) ELSE appended

\* _update_neighbor_history: append, then drop the oldest entry past 10.
update_neighbor_history(history, nbrs) ==
    LET appended == Append(history, nbrs)
    IN  IF Len(appended) > 10 THEN Tail(appended) ELSE appended

\* detect_neighbors: the neighbor list of the step and the history after it.
\* sensed is the list of (x, y) positions the detection pipeline returns.
detect_neighbors(lidar, pipeline, step, history, sensed) ==
    IF ~lidar \/ ~pipeline
    THEN [neighbors |-> simulate_neighbors(step), history |-> history]
    ELSE LET nbrs == [i \in 1..Len(sensed) |->
                         SwarmAgent(sensed[i],
                                    estimate_neighbor_velocity(history, i - 1, sensed[i]))]
         IN  [neighbors |-> nbrs, history |-> update_neighbor_history(history, nbrs)]

----------------------------------------------------------------------------
(* Parameter auto-tuning.                                                  *)

\* The doubles self.EPSILON takes are, by tenths t: 0.20000000000000004 (2),
\* 0.30000000000000004 (3), 0.4, 0.5, 0.6, 0.7, 0.7999999999999999 (8),
\* 0.8999999999999999 (9), 0.9999999999999999 (10).  The two comparisons of
\* auto_tune_parameters on these doubles:
epsilon_above_floor(t) == t >= 3       \* self.EPSILON > 0.3

epsilon_below_ceiling(t) == t <= 9     \* self.EPSILON < 0.9

\* [len(h) for h in self.neighbor_history[-5:]] if self.neighbor_history else [0]
recent_counts(history) ==
    IF history = <<>> THEN <<0>>
    ELSE LET first == Max(1, Len(history) - 4)
         IN  [i \in 1..(Len(history) - first + 1) |-> Len(history[first + i - 1])]

\* Variant: the tuning runs every 100 steps.
auto_tune_parameters_100(step, history, lidar, epsilon) ==
    IF step % 100 = 0 /\ step > 0
    THEN LET counts == recent_counts(history)
             low    == SumSeq(counts) < Len(counts)
             high   == SumSeq(counts) > 4 * Len(counts)
         IN  IF (low \/ high) /\ ~lidar
             THEN [raises |-> TRUE, EPSILON |-> epsilon]
             ELSE IF low /\ epsilon_above_floor(epsilon)
             THEN [raises |-> FALSE, EPSILON |-> epsilon - 1]
             ELSE IF high /\ epsilon_below_ceiling(epsilon)
             THEN [raises |-> FALSE, EPSILON |-> epsilon + 1]
             ELSE [raises |-> FALSE, EPSILON |-> epsilon]
    ELSE [raises |-> FALSE, EPSILON |-> epsilon]

\* auto_tune_parameters, called with the incremented step count: the new
\* EPSILON, or raises = TRUE when the code reads self.EPSILON on a controller
\* that never set it (has_lidar false).
auto_tune_parameters(step, history, lidar, epsilon) ==
    IF step % 200 = 0 /\ step > 0
    THEN LET counts == recent_counts(history)
             low    == SumSeq(counts) < Len(counts)          \* avg_neighbors < 1
             high   == SumSeq(counts) > 4 * Len(counts)      \* avg_neighbors > 4
         IN  IF (low \/ high) /\ ~lidar
             THEN [raises |-> TRUE, EPSILON |-> epsilon]
             ELSE IF low /\ epsilon_above_floor(epsilon)
             THEN [raises |-> FALSE, EPSILON |-> epsilon - 1]
             ELSE IF high /\ epsilon_below_ceiling(epsilon)
             THEN [raises |-> FALSE, EPSILON |-> epsilon + 1]
             ELSE [raises |-> FALSE, EPSILON |-> epsilon]
    ELSE [raises |-> FALSE, EPSILON |-> epsilon]

----------------------------------------------------------------------------
(* Formation quality and mission weights.                                  *)

\* Variant of detect_formation_quality that tests the formation type before
\* the number of neighbors, and takes every circle as perfect.
detect_formation_quality_type_first(nbrs, ftype) ==
    IF ftype # "circle" THEN 500
    ELSE IF Len(nbrs) < 2 THEN 0
    ELSE 1000

\* detect_formation_quality, in thousandths.  With n neighbors, D[i] is n times
\* the distance of neighbor i to the centroid, so that no fraction is needed.
detect_formation_quality(nbrs, ftype) ==
    LET n == Len(nbrs)
    IN  IF n < 2 THEN 0
        ELSE IF ftype = "circle"
        THEN LET sx   == SumSeq([i \in 1..n |-> nbrs[i].position[1]])
                 sy   == SumSeq([i \in 1..n |-> nbrs[i].position[2]])
                 D    == [i \in 1..n |->
                             Distance(<<n * nbrs[i].position[1], n * nbrs[i].position[2]>>,
                                      <<sx, sy>>)]
                 M    == SumSeq(D)                                  \* n * n * mean_dist
                 sq   == SumSeq([i \in 1..n |-> (n * D[i] - M) * (n * D[i] - M)])
                 stdn == ISqrt(sq \div n)                           \* n * n * std_dev
             IN  Max(0, 1000 - (1000 * stdn) \div (M + n * n))
        ELSE 500

\* BehaviorWeight(...) with the dataclass defaults for the fields not given.
BehaviorWeight(sep, ali, coh, obs, lead, form, expl) ==
    [separation |-> sep, alignment |-> ali, cohesion |-> coh,
     obstacle_avoidance |-> obs, leader_following |-> lead,
     formation |-> form, exploration |-> expl]

DefaultWeights == BehaviorWeight(200000, 100000, 100000, 300000, 150000, 100000, 50000)

\* np.mean of the neighbors' distances to the robot, times the neighbor count.
sum_distance(nbrs) == SumSeq([i \in 1..Len(nbrs) |-> Distance(nbrs[i].position, Origin)])

\* The weight profile adapt_behavior_to_mission builds for a mission mode.
mission_weights(mode, nbrs, quality) ==
    LET n == Len(nbrs)
    IN  IF mode = "exploration"
        THEN BehaviorWeight(250000 + (IF n > 3 THEN 50000 ELSE 0), 80000,
                            120000 - (IF n > 4 THEN 30000 ELSE 0), 350000,
                            150000, 100000,
                            200000 + (IF n < 2 THEN 100000 ELSE 0))
        ELSE IF mode = "formation"
        THEN BehaviorWeight(150000,
                            200000 + (IF quality < 600 THEN 50000 ELSE 0),
                            180000 + (IF quality < 500 THEN 70000 ELSE 0),
                            300000, 150000,
                            250000 + (IF quality < 500 THEN 100000 ELSE 0),
                            50000)
        ELSE IF mode = "following" /\ n > 0
        THEN LET total == sum_distance(nbrs)
             IN  BehaviorWeight(200000 + (IF total < 200 * n THEN 100000 ELSE 0),
                                150000,
                                250000 - (IF total > 500 * n THEN 50000 ELSE 0),
                                300000,
                                300000 + (IF total > 400 * n THEN 100000 ELSE 0),
                                100000, 50000)
        ELSE IF mode = "patrol"
        THEN BehaviorWeight(300000, 120000, 80000, 400000, 150000, 100000, 150000)
        ELSE IF mode = "search"
        THEN BehaviorWeight(200000, 250000, 150000, 350000, 150000, 100000, 250000)
        ELSE BehaviorWeight(200000 + quality, 100000, 100000 + (1000 - quality),
                            300000, 150000, 100000, 50000)

\* EnhancedSwarmController._initialize_behaviors: the five registered
\* behaviours, each with its weight; the Formation behaviour also carries its
\* own formation type.
initial_behaviors ==
    [separation         |-> [weight |-> DefaultWeights.separation],
     alignment          |-> [weight |-> DefaultWeights.alignment],
     cohesion           |-> [weight |-> DefaultWeights.cohesion],
     obstacle_avoidance |-> [weight |-> DefaultWeights.obstacle_avoidance],
     formation          |-> [weight |-> DefaultWeights.formation,
                             formation_type |-> "circle"]]

\* Variant of update_weights in which the exploration weight adds to the
\* Separation behaviour's weight.
update_weights_exploring(bhv, new_weights) ==
    [t \in DOMAIN bhv |->
        [bhv[t] EXCEPT !.weight = new_weights[t] +
                           (IF t = "separation" THEN new_weights.exploration ELSE 0)]]

\* Variant of update_weights that leaves the Formation behaviour's weight alone.
update_weights_keep_formation(bhv, new_weights) ==
    [t \in DOMAIN bhv |->
        IF t = "formation" THEN bhv[t] ELSE [bhv[t] EXCEPT !.weight = new_weights[t]]]

\* EnhancedSwarmController.update_weights: the behaviours after the update.
update_weights(bhv, new_weights) ==
    [t \in DOMAIN bhv |-> [bhv[t] EXCEPT !.weight = new_weights[t]]]

\* Variant of _adapt_formation_type that falls back to the circle with fewer
\* than two neighbors.
adapt_formation_type_reset(ftype, nbrs) ==
    IF Len(nbrs) >= 2 /\ Len(nbrs) < 4 THEN "line" ELSE "circle"

\* _adapt_formation_type.
adapt_formation_type(ftype, nbrs) ==
    IF Len(nbrs) >= 4 THEN "circle"
    ELSE IF Len(nbrs) >= 2 THEN "line"
    ELSE ftype

----------------------------------------------------------------------------
(* Obstacle detector.                                                      *)

RECURSIVE SumX(_)
SumX(pts) == IF pts = <<>> THEN 0 ELSE Head(pts)[1] + SumX(Tail(pts))

RECURSIVE SumY(_)
SumY(pts) == IF pts = <<>> THEN 0 ELSE Head(pts)[2] + SumY(Tail(pts))

\* Variant: the cluster radius is 20 cm.
RECURSIVE split_by_seed_wide(_, _, _)
split_by_seed_wide(seed, pts, near) ==
    IF pts = <<>> THEN <<>>
    ELSE (IF Within(seed, Head(pts), 200) = near THEN <<Head(pts)>> ELSE <<>>)
         \o split_by_seed_wide(seed, Tail(pts), near)

\* The points of pts within 15 cm of seed (near = TRUE), or the others, in order.
RECURSIVE split_by_seed(_, _, _)
split_by_seed(seed, pts, near) ==
    IF pts = <<>> THEN <<>>
    ELSE (IF Within(seed, Head(pts), 150) = near THEN <<Head(pts)>> ELSE <<>>)
         \o split_by_seed(seed, Tail(pts), near)

\* One pass over the later points against the running centroid (sx/n, sy/n) of
\* the open cluster: the sums and size of the cluster and the points left out.
RECURSIVE gather_running(_, _, _, _)
gather_running(sx, sy, n, rest) ==
    IF rest = <<>> THEN [sx |-> sx, sy |-> sy, n |-> n, left |-> <<>>]
    ELSE LET q == Head(rest)
         IN  IF (n * q[1] - sx) * (n * q[1] - sx) + (n * q[2] - sy) * (n * q[2] - sy)
                    < (150 * n) * (150 * n)
             THEN gather_running(sx + q[1], sy + q[2], n + 1, Tail(rest))
             ELSE LET r == gather_running(sx, sy, n, Tail(rest))
                  IN  [r EXCEPT !.left = <<q>> \o @]

\* Variant: a point joins the open cluster when it is within 15 cm of the
\* cluster's running centroid, recomputed after each join.
RECURSIVE cluster_loop_running(_)
cluster_loop_running(pts) ==
    IF pts = <<>> THEN <<>>
    ELSE LET g == gather_running(Head(pts)[1], Head(pts)[2], 1, Tail(pts))
         IN  << <<g.sx \div g.n, g.sy \div g.n>> >> \o cluster_loop_running(g.left)

\* Variant: the points that joined a cluster are not marked as used.
RECURSIVE cluster_loop_reuse(_)
cluster_loop_reuse(pts) ==
    IF pts = <<>> THEN <<>>
    ELSE LET obs1    == Head(pts)
             members == <<obs1>> \o split_by_seed(obs1, Tail(pts), TRUE)
         IN  << <<SumX(members) \div Len(members), SumY(members) \div Len(members)>> >>
             \o cluster_loop_reuse(Tail(pts))

\* The loop of _cluster_obstacles: the first unused point opens a cluster, the
\* later unused points within 15 cm of that point join it, and the cluster's
\* mean is emitted.
RECURSIVE cluster_loop(_)
cluster_loop(pts) ==
    IF pts = <<>> THEN <<>>
    ELSE LET obs1    == Head(pts)
             members == <<obs1>> \o split_by_seed(obs1, Tail(pts), TRUE)
             rest    == split_by_seed(obs1, Tail(pts), FALSE)
         IN  << <<SumX(members) \div Len(members), SumY(members) \div Len(members)>> >>
             \o cluster_loop(rest)

\* _cluster_obstacles.
cluster_obstacles(pts) == IF Len(pts) < 2 THEN pts ELSE cluster_loop(pts)

\* Variant: no point is discarded for being near a neighbor.
drop_neighbor_points_none(pts, nbrs) == pts

\* The points that are not within 10 cm of any neighbor, in order.
RECURSIVE drop_neighbor_points(_, _)
drop_neighbor_points(pts, nbrs) ==
    IF pts = <<>> THEN <<>>
    ELSE (IF \E i \in 1..Len(nbrs) : Within(Head(pts), nbrs[i].position, 100)
          THEN <<>> ELSE <<Head(pts)>>)
         \o drop_neighbor_points(Tail(pts), nbrs)

\* intelligent_obstacle_detection.  points are the range-image samples that
\* pass the range test (closer than 0.8 of the layer's calibrated range),
\* already converted to (x, y).
intelligent_obstacle_detection(lidar, points, nbrs) ==
    IF ~lidar THEN <<>>
    ELSE cluster_obstacles(drop_neighbor_points(points, nbrs))

----------------------------------------------------------------------------
(* Emergency behaviours, metrics, mission state machine.                   *)

\* Variant: a close neighbor counts twice (0.2 per neighbor).
RECURSIVE close_neighbors_twice(_)
close_neighbors_twice(nbrs) ==
    IF nbrs = <<>> THEN 0
    ELSE (IF Within(Head(nbrs).position, Origin, 80) THEN 2 ELSE 0)
         + close_neighbors_twice(Tail(nbrs))

\* _apply_emergency_behaviors: the number of neighbors closer than 8 cm, each
\* of which adds 0.1 to collision_count.
RECURSIVE close_neighbors(_)
close_neighbors(nbrs) ==
    IF nbrs = <<>> THEN 0
    ELSE (IF Within(Head(nbrs).position, Origin, 80) THEN 1 ELSE 0)
         + close_neighbors(Tail(nbrs))

\* Variant: the exploration coverage starts over in a step without neighbors.
update_performance_metrics_reset(metrics, nbrs, quality) ==
    [metrics EXCEPT
        !.exploration_coverage = IF Len(nbrs) = 0 THEN 0
                                 ELSE @ + (IF Len(nbrs) < 3 THEN 10 ELSE 5),
        !.time_in_formation    = @ + (IF quality > 700 THEN 1 ELSE 0)]

\* _update_performance_metrics.
update_performance_metrics(metrics, nbrs, quality) ==
    [metrics EXCEPT
        !.exploration_coverage = @ + (IF Len(nbrs) < 3 THEN 10 ELSE 5),
        !.time_in_formation    = @ + (IF quality > 700 THEN 1 ELSE 0)]

\* switch_mission_mode: the mission mode after the call.
switch_mission_mode(mode, new_mode) ==
    IF new_mode \in {"exploration", "formation", "following"} THEN new_mode ELSE mode

\* The table of _auto_switch_mission_mode, without its step gate.
auto_switch_table(mode, step, min_count, nbrs, quality) ==
    IF mode = "exploration" /\ Len(nbrs) >= min_count
    THEN switch_mission_mode(mode, "formation")
    ELSE IF mode = "formation" /\ quality > 800
    THEN switch_mission_mode(mode, "patrol")
    ELSE IF mode = "patrol" /\ step % 1600 = 0
    THEN switch_mission_mode(mode, "exploration")
    ELSE mode

\* Variant: the 800-step interval is not tested.
auto_switch_no_interval(mode, step, nbrs, quality) ==
    IF step > 500 THEN auto_switch_table(mode, step, 3, nbrs, quality) ELSE mode

\* Variant: exploration needs more than 3 neighbors (> for >=).
auto_switch_strict_count(mode, step, nbrs, quality) ==
    IF step > 500 /\ step % 800 = 0
    THEN auto_switch_table(mode, step, 4, nbrs, quality) ELSE mode

\* Variant: the interval is counted from step 500.
auto_switch_offset(mode, step, nbrs, quality) ==
    IF step > 500 /\ (step - 500) % 800 = 0
    THEN auto_switch_table(mode, step, 3, nbrs, quality) ELSE mode

\* _auto_switch_mission_mode: the mission mode after the call.
auto_switch_mission_mode(mode, step, nbrs, quality) ==
    IF step > 500 /\ step % 800 = 0
    THEN IF mode = "exploration" /\ Len(nbrs) >= 3
         THEN switch_mission_mode(mode, "formation")
         ELSE IF mode = "formation" /\ quality > 800
         THEN switch_mission_mode(mode, "patrol")
         ELSE IF mode = "patrol" /\ step % 1600 = 0
         THEN switch_mission_mode(mode, "exploration")
         ELSE mode
    ELSE mode

----------------------------------------------------------------------------
(* Behaviour set and weighted aggregator.  Forces are in thousandths, the  *)
(* agent is at the origin with zero velocity (create_current_agent).       *)

Sign(x) == IF x < 0 THEN -1 ELSE IF x > 0 THEN 1 ELSE 0

\* force * weight, for a force in thousandths and a weight in units of 0.00001.
scale_by_weight(f, w) ==
    (f * (w \div 1000)) \div 100 + (f * (w % 1000)) \div 100000

\* a * 1000 / b for 0 <= a and 0 < b, without leaving 32 bits.
MilliRatio(a, b) == (a \div b) * 1000 + ((a % b) * 1000) \div b

\* The repulsion one point p within radius (mm) exerts on the agent:
\* (radius - d) / (d*d + 0.001) along the unit vector from p to the agent.
repulsion(p, radius) ==
    LET d2 == p[1] * p[1] + p[2] * p[2]
    IN  IF 0 < d2 /\ d2 < radius * radius
        THEN LET d10 == ISqrt(d2 * 100)
                 mag == ((radius * 10 - d10) * 100000) \div (d2 + 1000)
             IN  << (-(p[1] * mag * 10)) \div d10, (-(p[2] * mag * 10)) \div d10 >>
        ELSE <<0, 0>>

\* SeparationBehavior.calculate_force before the weight: neighbors within 15 cm.
RECURSIVE separation_sum(_)
separation_sum(nbrs) ==
    IF nbrs = <<>> THEN <<0, 0>>
    ELSE LET f == repulsion(Head(nbrs).position, 150)
             r == separation_sum(Tail(nbrs))
         IN  <<f[1] + r[1], f[2] + r[2]>>

\* ObstacleAvoidanceBehavior.calculate_force before the weight: obstacles
\* within 20 cm, each repulsion doubled.
RECURSIVE avoidance_sum(_)
avoidance_sum(obs) ==
    IF obs = <<>> THEN <<0, 0>>
    ELSE LET f == repulsion(Head(obs), 200)
             r == avoidance_sum(Tail(obs))
         IN  <<2 * f[1] + r[1], 2 * f[2] + r[2]>>

\* The neighbors within radius (mm) of the agent, in order.
RECURSIVE in_range(_, _)
in_range(nbrs, radius) ==
    IF nbrs = <<>> THEN <<>>
    ELSE (IF Within(Head(nbrs).position, Origin, radius) THEN <<Head(nbrs)>> ELSE <<>>)
         \o in_range(Tail(nbrs), radius)

\* AlignmentBehavior.calculate_force before the weight: the mean velocity of
\* the neighbors within 30 cm (the agent's own velocity is zero).
alignment_force(nbrs) ==
    LET near == in_range(nbrs, 300)
        n    == Len(near)
    IN  IF n > 0
        THEN << (SumSeq([i \in 1..n |-> near[i].velocity[1]]) \div n) \div 1000,
                (SumSeq([i \in 1..n |-> near[i].velocity[2]]) \div n) \div 1000 >>
        ELSE <<0, 0>>

\* CohesionBehavior.calculate_force before the weight: the mean position of
\* the neighbors within 50 cm (the agent is at the origin).
cohesion_force(nbrs) ==
    LET near == in_range(nbrs, 500)
        n    == Len(near)
    IN  IF n > 0
        THEN << SumSeq([i \in 1..n |-> near[i].position[1]]) \div n,
                SumSeq([i \in 1..n |-> near[i].position[2]]) \div n >>
        ELSE <<0, 0>>

\* FormationBehavior.calculate_force before the weight, for the behaviour's
\* own formation type.  Circle: the point 30 cm from the neighbors' centroid on
\* the ray from the centroid through the agent (atan2(0, 0) = 0 puts it on the
\* x axis when the centroid is the agent's position).
formation_force(ftype, nbrs) ==
    LET n  == Len(nbrs)
        sx == SumSeq([i \in 1..n |-> nbrs[i].position[1]])
        sy == SumSeq([i \in 1..n |-> nbrs[i].position[2]])
    IN  IF n = 0 THEN <<0, 0>>
        ELSE IF ftype = "circle"
        THEN IF sx = 0 /\ sy = 0
             THEN <<300, 0>>
             ELSE LET norm == Max(1, Distance(<<sx, sy>>, Origin))
                  IN  << sx \div n + (300 * (-sx)) \div norm,
                         sy \div n + (300 * (-sy)) \div norm >>
        ELSE IF ftype = "line"
        THEN <<0, sy \div n>>
        ELSE <<0, 0>>

\* EnhancedSwarmController.calculate_movement: the sum of the registered
\* behaviours' weighted forces.
calculate_movement(bhv, nbrs, obs) ==
    LET sep == separation_sum(nbrs)
        ali == alignment_force(nbrs)
        coh == cohesion_force(nbrs)
        avo == avoidance_sum(obs)
        frm == formation_force(bhv.formation.formation_type, nbrs)
    IN  << scale_by_weight(sep[1], bhv.separation.weight)
             + scale_by_weight(ali[1], bhv.alignment.weight)
             + scale_by_weight(coh[1], bhv.cohesion.weight)
             + scale_by_weight(avo[1], bhv.obstacle_avoidance.weight)
             + scale_by_weight(frm[1], bhv.formation.weight),
           scale_by_weight(sep[2], bhv.separation.weight)
             + scale_by_weight(ali[2], bhv.alignment.weight)
             + scale_by_weight(coh[2], bhv.cohesion.weight)
             + scale_by_weight(avo[2], bhv.obstacle_avoidance.weight)
             + scale_by_weight(frm[2], bhv.formation.weight) >>

\* The emergency repulsion of one point closer than radius (mm): magnitude
\* gain (thousandths) away from the point (atan2(0, 0) = 0 for a point on the
\* agent).
emergency_push(p, radius, gain) ==
    IF Within(p, Origin, radius)
    THEN IF p = Origin THEN <<-gain, 0>>
         ELSE LET d == Max(1, Distance(p, Origin))
              IN  << (-(gain * p[1])) \div d, (-(gain * p[2])) \div d >>
    ELSE <<0, 0>>

RECURSIVE emergency_neighbors(_)
emergency_neighbors(nbrs) ==
    IF nbrs = <<>> THEN <<0, 0>>
    ELSE LET f == emergency_push(Head(nbrs).position, 80, 2000)
             r == emergency_neighbors(Tail(nbrs))
         IN  <<f[1] + r[1], f[2] + r[2]>>

RECURSIVE emergency_obstacles(_)
emergency_obstacles(obs) ==
    IF obs = <<>> THEN <<0, 0>>
    ELSE LET f == emergency_push(Head(obs), 120, 3000)
             r == emergency_obstacles(Tail(obs))
         IN  <<f[1] + r[1], f[2] + r[2]>>

\* _apply_emergency_behaviors: the force returned.
apply_emergency_behaviors(fvec, nbrs, obs) ==
    LET en == emergency_neighbors(nbrs)
        eo == emergency_obstacles(obs)
    IN  <<fvec[1] + en[1] + eo[1], fvec[2] + en[2] + eo[2]>>

\* math.atan of z in 0..1000 thousandths, in mrad: z*pi/4 + 0.273*z*(1 - z),
\* exact to 4 mrad.
AtanMilli(z) == (785 * z) \div 1000 + (273 * z * (1000 - z)) \div 1000000

\* math.atan2(a, b) in mrad, in -3142..3142.
Atan2Milli(a, b) ==
    IF a = 0 /\ b = 0 THEN 0
    ELSE LET big   == Max(Abs(a), Abs(b)) > 1000000
             aa    == IF big THEN Abs(a) \div 1000 ELSE Abs(a)
             ab    == IF big THEN Abs(b) \div 1000 ELSE Abs(b)
             theta == IF aa <= ab THEN AtanMilli(MilliRatio(aa, ab))
                                  ELSE 1571 - AtanMilli(MilliRatio(ab, aa))
         IN  IF b >= 0 THEN Sign(a) * theta
             ELSE IF a >= 0 THEN 3142 - theta
             ELSE -(3142 - theta)

\* min(math.sqrt(fx*fx + fy*fy), 1.0), in thousandths.
desired_speed(fvec) ==
    IF Abs(fvec[1]) >= 1000 \/ Abs(fvec[2]) >= 1000 THEN 1000
    ELSE Min(Distance(fvec, Origin), 1000)

\* v / max_vel * max_velocity for the clamp of convert_to_motor_commands.
clamp_wheel(v, max_vel, max_velocity) ==
    Sign(v) * MilliRatio(Abs(v) * max_velocity, max_vel)

\* Variant: the wheel velocities are not scaled down to max_velocity.
convert_to_motor_commands_unclamped(fvec, max_velocity) ==
    LET desired_angle    == Atan2Milli(fvec[1], fvec[2])
        linear_velocity  == (desired_speed(fvec) * max_velocity * 8) \div 10
        angular_velocity == (desired_angle * max_velocity * 3) \div 10
    IN  <<linear_velocity + angular_velocity, linear_velocity - angular_velocity>>

\* EnhancedSwarmController.convert_to_motor_commands: wheel velocities in
\* thousandths, max_velocity in units.
convert_to_motor_commands(fvec, max_velocity) ==
    LET desired_angle    == Atan2Milli(fvec[1], fvec[2])
        linear_velocity  == (desired_speed(fvec) * max_velocity * 8) \div 10
        angular_velocity == (desired_angle * max_velocity * 3) \div 10
        left_velocity    == linear_velocity + angular_velocity
        right_velocity   == linear_velocity - angular_velocity
        max_vel          == Max(Abs(left_velocity), Abs(right_velocity))
    IN  IF max_vel > max_velocity * 1000
        THEN << clamp_wheel(left_velocity, max_vel, max_velocity),
                clamp_wheel(right_velocity, max_vel, max_velocity) >>
        ELSE <<left_velocity, right_velocity>>

\* _smooth_motor_commands: 0.7 of the new command plus 0.3 of the last one.
smooth_motor_commands(vel, last) ==
    << (7 * vel[1] + 3 * last[1]) \div 10, (7 * vel[2] + 3 * last[2]) \div 10 >>

----------------------------------------------------------------------------
(* Sensor samples.  A scene is what the sensors return in one step: the    *)
(* neighbor positions the detection pipeline reports and the range-image   *)
(* points that pass the obstacle range test.                               *)

NoScene == [nbrs |-> <<>>, pts |-> <<>>]

\* One neighbor 5 cm away; four range points, one of them on that neighbor
\* and two of them 10 cm apart.
CloseScene == [nbrs |-> << <<50, 0>> >>,
               pts  |-> << <<60, 0>>, <<0, 100>>, <<0, 200>>, <<300, 300>> >>]

PairScene == [nbrs |-> << <<200, 0>>, <<-200, 0>> >>, pts |-> << <<0, 110>> >>]

TripleScene == [nbrs |-> << <<200, 0>>, <<0, 200>>, <<-200, 0>> >>, pts |-> <<>>]

\* Four neighbors on a circle of 25 cm around the robot.
RingScene == [nbrs |-> << <<250, 0>>, <<0, 250>>, <<-250, 0>>, <<0, -250>> >>,
              pts  |-> <<>>]

Scenes == {NoScene, CloseScene}

LongScenes == {NoScene, PairScene, TripleScene, RingScene}

\* Five neighbors around the robot.
CrowdScene == [nbrs |-> << <<300, 0>>, <<0, 300>>, <<-300, 0>>, <<0, -300>>, <<250, 250>> >>,
               pts  |-> <<>>]

TuneScenes == {NoScene, CrowdScene}

\* Range points for the obstacle detector: on a line 14, 16 and 28 cm from the
\* first one, and one off the line.
ClusterPoints == {<<0, 0>>, <<140, 0>>, <<160, 0>>, <<280, 0>>, <<100, 100>>}

\* Every list of up to MaxPoints of these points.
PointLists == UNION {[1..n -> ClusterPoints] : n \in 0..MaxPoints}

\* No neighbor, or one neighbor 10.6 cm from the first two points and 3.6 cm
\* from the point off the line.
ClusterScenes ==
    {[nbrs |-> nb, pts |-> pl] : nb \in {<<>>, << <<70, 80>> >>}, pl \in PointLists}

\* Scenes between which the neighbor at each list index moves, appears or
\* disappears.
TrackScenes == {NoScene, CloseScene, PairScene}

\* Scenes with no, one, two and four neighbors.
FormationScenes == {NoScene, CloseScene, PairScene, RingScene}

\* Scenes of the runs of main: no neighbor or two.
MainScenes == {NoScene, PairScene}

Modes == {"exploration", "formation", "following", "patrol", "search"}

----------------------------------------------------------------------------
(* The controller.                                                         *)

\* ChuhaEnhancedController.__init__ with _initialize_hardware: each device is
\* present or absent; EPSILON is set only on a controller with a lidar.
Init ==
    /\ has_lidar \in BOOLEAN
    /\ has_display \in BOOLEAN
    /\ CHUHABOT_FUNCTIONS_AVAILABLE \in BOOLEAN
    /\ step_count = 0
    /\ mission_mode = "exploration"
    /\ formation_type = "circle"
    /\ neighbor_history = <<>>
    /\ EPSILON = (IF has_lidar THEN 6 ELSE 0)
    /\ performance_metrics = [distance_traveled |-> 0, time_in_formation |-> 0,
                              collision_count |-> 0, exploration_coverage |-> 0]
    /\ last_neighbor_count = 0
    /\ weights = DefaultWeights
    /\ behaviors = initial_behaviors
    /\ neighbors = <<>>
    /\ obstacles = <<>>
    /\ force = <<0, 0>>
    /\ last_vel = <<0, 0>>
    /\ display_frame = FALSE
    /\ status = "running"
    /\ scene = NoScene
    /\ last_call = [op |-> "init", arg |-> ""]
    \* HybridSwarmController.__init__: no robot registered, no buffer
    /\ robots = <<>>
    /\ message_buffer = <<>>

\* Variant of adapted_mode: the weights follow the mode the step switches to.
adapted_mode_switched(held, switched) == switched

\* The mission mode adapt_behavior_to_mission reads in a step that starts in
\* the mode held and ends in the mode switched: run_step calls it before the
\* forces are computed and calls _auto_switch_mission_mode last.
adapted_mode(held, switched) == held

\* Variant of visualize_swarm_state: a failing drawing call leaves the method.
visualize_swarm_state_raising(display, drawn) ==
    [frame |-> display /\ drawn, raises |-> display /\ ~drawn]

\* visualize_swarm_state on a controller whose display is present or not;
\* drawn tells whether the drawing calls succeed. Without a display the method
\* returns at once; a failing drawing call is caught inside the method, which
\* only prints. The method writes no attribute of the controller.
visualize_swarm_state(display, drawn) ==
    [frame |-> display /\ drawn, raises |-> FALSE]

\* run_step on the sensor sample sc; drawn tells whether the drawing calls of
\* this step's visualization succeed.
RunStepDrawing(sc, drawn) ==
    /\ status = "running"
    /\ LET step == step_count + 1
           tune == auto_tune_parameters(step, neighbor_history, has_lidar, EPSILON)
       IN  /\ step_count' = step
           /\ last_call' = [op |-> "run_step", arg |-> ""]
           /\ UNCHANGED <<hardware, hybrid>>
           /\ IF tune.raises
              THEN \* AttributeError leaves run_step before anything else is done
                   /\ status' = "error"
                   /\ UNCHANGED <<mission_mode, formation_type, neighbor_history, EPSILON,
                                  performance_metrics, last_neighbor_count, weights,
                                  behaviors, neighbors, obstacles, force, last_vel,
                                  display_frame, scene>>
              ELSE LET det   == detect_neighbors(has_lidar, CHUHABOT_FUNCTIONS_AVAILABLE,
                                                 step, neighbor_history, sc.nbrs)
                       nbrs  == det.neighbors
                       obs   == intelligent_obstacle_detection(has_lidar, sc.pts, nbrs)
                       \* adapt_behavior_to_mission
                       q1    == detect_formation_quality(nbrs, formation_type)
                       ftype == adapt_formation_type(formation_type, nbrs)
                       \* formation quality for feedback
                       q2    == detect_formation_quality(nbrs, ftype)
                       w     == mission_weights(
                                    adapted_mode(mission_mode,
                                                 auto_switch_mission_mode(
                                                     mission_mode, step, nbrs, q2)),
                                    nbrs, q1)
                       bhv   == update_weights(behaviors, w)
                       f     == apply_emergency_behaviors(
                                    calculate_movement(bhv, nbrs, obs), nbrs, obs)
                       m1    == [performance_metrics EXCEPT
                                    !.time_in_formation = @ + (IF q1 > 700 THEN 1 ELSE 0),
                                    !.collision_count   = @ + close_neighbors(nbrs)]
                       vis   == visualize_swarm_state(has_display, drawn)
                   IN  /\ status' = (IF vis.raises THEN "error" ELSE "running")
                       /\ scene' = sc
                       /\ EPSILON' = tune.EPSILON
                       /\ neighbors' = nbrs
                       /\ last_neighbor_count' = Len(nbrs)
                       /\ neighbor_history' = det.history
                       /\ obstacles' = obs
                       /\ weights' = w
                       /\ behaviors' = bhv
                       /\ force' = f
                       /\ last_vel' = smooth_motor_commands(
                                          convert_to_motor_commands(f, 60), last_vel)
                       /\ formation_type' = ftype
                       /\ performance_metrics' = update_performance_metrics(m1, nbrs, q2)
                       /\ display_frame' = vis.frame
                       /\ mission_mode' = (IF vis.raises THEN mission_mode
                                           ELSE auto_switch_mission_mode(
                                                    mission_mode, step, nbrs, q2))

\* run_step on the sensor sample sc, the drawing calls succeeding.
RunStep(sc) == RunStepDrawing(sc, TRUE)

\* A client's call of switch_mission_mode(new_mode).
SwitchMissionMode(new_mode) ==
    /\ status = "running"
    /\ mission_mode' = switch_mission_mode(mission_mode, new_mode)
    /\ last_call' = [op |-> "switch_mission_mode", arg |-> new_mode]
    /\ UNCHANGED <<hardware, hybrid, step_count, formation_type, neighbor_history,
                   EPSILON, performance_metrics, last_neighbor_count, weights,
                   behaviors, neighbors, obstacles, force, last_vel, display_frame,
                   status, scene>>

\* Short runs of run_step alone: any scene in any step.
\* main's mission_schedule: the step from which each entry is due.
mission_schedule ==
    << [step |-> 0,    mode |-> "exploration"],
       [step |-> 600,  mode |-> "formation"],
       [step |-> 1200, mode |-> "patrol"],
       [step |-> 1800, mode |-> "search"],
       [step |-> 2400, mode |-> "following"] >>

\* The entries of the schedule that main applies in the loop iteration whose
\* run_step was number step: main applies at most one entry per iteration, the
\* next one that is due, so entry i is applied in iteration Max(its step, i).
scheduled(step) ==
    {i \in 1..Len(mission_schedule) : step = Max(mission_schedule[i].step, i)}

\* main's formation_types.
formation_types == <<"circle", "line", "v_shape">>

\* main's formation cycling after the run_step number step.
cycle_formation(step, ftype) ==
    IF step % 500 = 0 /\ step > 0
    THEN formation_types[((step \div 500) % Len(formation_types)) + 1]
    ELSE ftype

\* The rest of an iteration of main's control loop after its run_step has
\* returned: the mission schedule, then the formation cycling.
MainLoopTail ==
    /\ status = "running"
    /\ last_call.op = "run_step"
    /\ mission_mode' =
           (IF scheduled(step_count) = {} THEN mission_mode
            ELSE LET i == CHOOSE j \in scheduled(step_count) : TRUE
                 IN  switch_mission_mode(mission_mode, mission_schedule[i].mode))
    /\ formation_type' = cycle_formation(step_count, formation_type)
    /\ last_call' = [op |-> "main", arg |-> ""]
    /\ UNCHANGED <<hardware, hybrid, step_count, neighbor_history, EPSILON,
                   performance_metrics, last_neighbor_count, weights, behaviors,
                   neighbors, obstacles, force, last_vel, display_frame, status,
                   scene>>

----------------------------------------------------------------------------
(* The hybrid swarm controller.                                            *)

\* HybridSwarmController.communication_range, in mm.
communication_range == 500

\* Variant of in_communication_range: the range itself is out of range.
in_communication_range_strict(robot1, robot2) ==
    Within(robot1.position, robot2.position, communication_range)

\* distance <= self.communication_range for the distance of _calculate_distance,
\* decided exactly on the squares.
in_communication_range(robot1, robot2) ==
    LET dx == robot1.position[1] - robot2.position[1]
        dy == robot1.position[2] - robot2.position[2]
    IN  dx * dx + dy * dy <= communication_range * communication_range

\* _format_message_for_platform; a message is its type and the length of
\* str(data). An e-puck gets the type and the first 50 characters.
format_message_for_platform(message, platform) ==
    IF platform \in {"epuck", "epuck2"}
    THEN [type |-> message.type, data |-> Min(message.data, 50)]
    ELSE message

\* The robots cross_platform_communication appends a message to.
receivers(rs, sender_id) ==
    {i \in DOMAIN rs \ {sender_id} : in_communication_range(rs[sender_id], rs[i])}

\* cross_platform_communication: the message buffers after the broadcast of a
\* registered sender.
cross_platform_communication(rs, buffer, sender_id, message) ==
    [i \in DOMAIN buffer |->
        IF i \in receivers(rs, sender_id)
        THEN Append(buffer[i], format_message_for_platform(message, rs[i].platform))
        ELSE buffer[i]]

\* The robots of the swarm: the platform of a robot is fixed, its position
\* estimate is the one its owner has assigned (update_position of both
\* platforms is a stub). The positions are 0.5 m, 0.6 m and 0.1 m apart.
RobotIds == {"chuha_0", "epuck_1", "chuha_2"}

RobotPositions == {<<0, 0>>, <<500, 0>>, <<600, 0>>}

RobotObjects ==
    {[robot_id |-> i,
      platform |-> (IF i = "epuck_1" THEN "epuck" ELSE "chuha_lidar"),
      position |-> p] : i \in RobotIds, p \in RobotPositions}

\* Messages: the data of the second is longer than an e-puck takes.
Messages == {[type |-> "alert", data |-> 10], [type |-> "info", data |-> 60]}

\* register_robot(robot).
RegisterRobot(robot) ==
    /\ robots' = [i \in DOMAIN robots \cup {robot.robot_id} |->
                     IF i = robot.robot_id THEN robot ELSE robots[i]]
    /\ message_buffer' = [i \in DOMAIN message_buffer \cup {robot.robot_id} |->
                             IF i = robot.robot_id THEN <<>> ELSE message_buffer[i]]
    /\ last_call' = [op |-> "register_robot", arg |-> robot.robot_id]
    /\ UNCHANGED controller

\* cross_platform_communication(sender_id, message); with an unregistered
\* sender the lookup self.robots[sender_id] raises KeyError before anything is
\* written.
CrossPlatformCommunication(sender_id, message) ==
    /\ message_buffer' =
           (IF sender_id \in DOMAIN robots
            THEN cross_platform_communication(robots, message_buffer, sender_id, message)
            ELSE message_buffer)
    /\ last_call' = [op |-> "cross_platform_communication", arg |-> sender_id]
    /\ UNCHANGED <<robots, controller>>

Next == \E sc \in Scenes : step_count < MaxSteps /\ RunStep(sc)

Spec == Init /\ [][Next]_vars

\* A client that also switches the mission mode between steps.
NextApi ==
    \/ \E sc \in Scenes : step_count < MaxApiSteps /\ RunStep(sc)
    \/ \E m \in Modes : SwitchMissionMode(m)

SpecApi == Init /\ [][NextApi]_vars

\* Long runs of run_step alone: the environment holds a scene for SceneHold
\* steps at a time.
NextLong ==
    \E sc \in LongScenes :
        /\ step_count < MaxLongSteps
        /\ (step_count = 0 \/ sc = scene \/ step_count % SceneHold = SceneHold - 1)
        /\ RunStep(sc)

SpecLong == Init /\ [][NextLong]_vars

\* Runs of run_step alone across four auto-tunings: the scene may change three
\* steps before a tuning step, so that the last five snapshots are all empty,
\* all crowded, or mixed.
NextTune ==
    \E sc \in TuneScenes :
        /\ step_count < MaxTuneSteps
        /\ (step_count = 0 \/ sc = scene \/ step_count % TuneHold = TuneHold - 4)
        /\ RunStep(sc)

SpecTune == Init /\ [][NextTune]_vars

\* The first run_step on every list of range points: one obstacle detection
\* per behaviour.
NextCluster == \E sc \in ClusterScenes : step_count = 0 /\ RunStep(sc)

SpecCluster == Init /\ [][NextCluster]_vars

\* Every operation of the controller, with neighbors that move between steps.
NextOps ==
    \/ \E sc \in TrackScenes : step_count < MaxOpsSteps /\ RunStep(sc)
    \/ \E m \in Modes : SwitchMissionMode(m)

SpecOps == Init /\ [][NextOps]_vars

\* Short runs of run_step alone with neighbors that move between steps.
NextTrack == \E sc \in TrackScenes : step_count < MaxTrackSteps /\ RunStep(sc)

SpecTrack == Init /\ [][NextTrack]_vars

\* Short runs of run_step alone in which any number of neighbors up to four
\* appears and the drawing calls of a step succeed or fail.
NextDisplay ==
    \E sc \in FormationScenes, drawn \in BOOLEAN :
        step_count < MaxDisplaySteps /\ RunStepDrawing(sc, drawn)

SpecDisplay == Init /\ [][NextDisplay]_vars

\* main's control loop across two formation switches: each iteration is a
\* run_step followed by the rest of the iteration. The scene may change right
\* after a formation switch.
NextMain ==
    \/ \E sc \in MainScenes :
           /\ step_count < MaxMainSteps
           /\ last_call.op # "run_step"
           /\ (step_count = 0 \/ sc = scene \/ step_count % CycleHold = 0)
           /\ RunStep(sc)
    \/ MainLoopTail

SpecMain == Init /\ [][NextMain]_vars

\* A client of the hybrid controller registers robots and broadcasts, as long
\* as no buffer grows beyond MaxBuffer.
NextHybrid ==
    \/ \E robot \in RobotObjects : RegisterRobot(robot)
    \/ \E sender_id \in RobotIds, message \in Messages :
           /\ sender_id \in DOMAIN robots =>
                  \A i \in receivers(robots, sender_id) :
                      Len(message_buffer[i]) < MaxBuffer
           /\ CrossPlatformCommunication(sender_id, message)

\* The hybrid controller as constructed, beside a robot controller with every
\* device: the hybrid controller uses none of that controller's state.
InitHybrid ==
    Init /\ has_lidar /\ has_display /\ CHUHABOT_FUNCTIONS_AVAILABLE

SpecHybrid == InitHybrid /\ [][NextHybrid]_vars

----------------------------------------------------------------------------
(* Properties.                                                             *)

\* The step just taken was a run_step that returned normally.
StepCompleted == last_call.op = "run_step" /\ status = "running"

\* The step taken by this transition is a run_step that returns normally.
StepCompletes == last_call'.op = "run_step" /\ status' = "running"

\* The step count of the step being taken is a re-evaluation boundary.
AtBoundary == step_count' > 500 /\ step_count' % 800 = 0

\* The formation quality run_step computes for the step being taken.
StepQuality == detect_formation_quality(neighbors', formation_type')

\* C1: across run_step calls the mission mode changes only inside a step whose
\* step count is greater than 500 and a multiple of 800; every other step
\* leaves the mode as it was.
C1_ModeChangesOnlyAtBoundary ==
    [][(last_call'.op = "run_step" /\ mission_mode' # mission_mode) => AtBoundary]_vars

C1_Witness ==
    /\ StepCompleted
    /\ step_count = 800
    /\ mission_mode = "formation"

\* C2: at a re-evaluation boundary, a controller in formation mode whose
\* neighbors of this step have a formation quality above 0.8 is in patrol mode
\* after the step.
C2_FormationToPatrol ==
    [][(StepCompletes /\ AtBoundary /\ mission_mode = "formation" /\ StepQuality > 800)
          => mission_mode' = "patrol"]_vars

\* C3: switch_mission_mode(m) makes m the current mission mode, for each of
\* the five modes.
C3_SwitchSetsMode ==
    last_call.op = "switch_mission_mode" => mission_mode = last_call.arg

\* C4: at a re-evaluation boundary a controller in exploration mode goes to
\* formation when this step saw at least 3 neighbors and stays in exploration
\* when it saw fewer.
C4_ExplorationToFormation ==
    [][(StepCompletes /\ AtBoundary /\ mission_mode = "exploration")
          => mission_mode' = (IF Len(neighbors') >= 3 THEN "formation" ELSE "exploration")]_vars

C4_Witness ==
    /\ StepCompleted
    /\ step_count = 1600
    /\ mission_mode = "formation"
    /\ Len(neighbors) >= 3
    /\ weights.exploration >= 200000      \* the step still ran on the exploration profile

\* A run_step that starts at or after step 500 in exploration mode and sees 3
\* neighbors.
ExploringWithThree ==
    /\ StepCompletes
    /\ step_count >= 500
    /\ mission_mode = "exploration"
    /\ Len(neighbors') = 3

\* C5 as stated: from step 500 in exploration with 3 neighbors at every step,
\* the mode is exploration on every step before 1300 and formation at 1300.
C5_BoundaryAt1300 ==
    [][ExploringWithThree =>
          /\ (step_count' < 1300 => mission_mode' = "exploration")
          /\ (step_count' = 1300 => mission_mode' = "formation")]_vars

\* C5 amended: from step 500 in exploration with 3 neighbors at every step,
\* the next boundary is step 800: the mode is exploration on every step before
\* 800 and formation at step 800.
C5_BoundaryAt800 ==
    [][ExploringWithThree =>
          /\ (step_count' < 800 => mission_mode' = "exploration")
          /\ (step_count' = 800 => mission_mode' = "formation")]_vars

C5_Witness ==
    /\ StepCompleted
    /\ step_count = 800
    /\ mission_mode = "formation"
    /\ Len(neighbor_history) = 10
    /\ \A i \in 1..10 : Len(neighbor_history[i]) = 3

\* C7: no run_step ends with an error, whatever the hardware and the step count.
C7_RunStepNeverRaises == status = "running"

\* The step ran without range data: no lidar, or no detection pipeline.
NoRangeData == ~has_lidar \/ ~CHUHABOT_FUNCTIONS_AVAILABLE

\* C8 as stated: a step without range data uses an empty neighbor list and an
\* empty obstacle list, at every step count.
C8_EmptyWithoutRangeData ==
    (StepCompleted /\ NoRangeData) => (neighbors = <<>> /\ obstacles = <<>>)

\* C8 amended: a step without range data uses an empty neighbor list up to
\* step 50 and exactly two simulated neighbors from step 51 on; its obstacle
\* list is empty when the controller has no lidar.
C8_SimulatedWithoutRangeData ==
    (StepCompleted /\ NoRangeData) =>
        /\ Len(neighbors) = (IF step_count > 50 THEN 2 ELSE 0)
        /\ (~has_lidar => obstacles = <<>>)

C8_Witness ==
    /\ StepCompleted
    /\ has_lidar
    /\ ~CHUHABOT_FUNCTIONS_AVAILABLE
    /\ step_count > 50
    /\ Len(neighbors) = 2
    /\ obstacles # <<>>

\* C9: the neighbor history never holds more than 10 snapshots.
C9_HistoryBounded == Len(neighbor_history) <= 10

C9_Witness ==
    /\ step_count > 10
    /\ Len(neighbor_history) = 10

\* C10: a step that appends to a history of 10 snapshots removes exactly the
\* oldest one and keeps the other 9 in order before the new snapshot; a step
\* that appends to a shorter history removes nothing; no other step changes
\* the history.
C10_FifoEviction ==
    [][IF StepCompletes /\ ~NoRangeData
       THEN /\ Len(neighbor_history) = 10 =>
                  neighbor_history' = SubSeq(neighbor_history, 2, 10) \o <<neighbors'>>
            /\ Len(neighbor_history) < 10 =>
                  neighbor_history' = neighbor_history \o <<neighbors'>>
       ELSE neighbor_history' = neighbor_history]_vars

C10_Witness ==
    /\ StepCompleted
    /\ step_count > 10
    /\ Len(neighbor_history) = 10
    /\ neighbor_history[1] # neighbor_history[2]
    /\ neighbor_history[10] = neighbors

\* C11: in a step with range data, the velocity of the neighbor at list index
\* i is (0,0) when the history held fewer than two snapshots before the step;
\* otherwise it is the current position minus the position at index i of the
\* second-to-last snapshot held before the step (the one of two steps
\* earlier), divided by the duration of ONE step, or (0,0) when that snapshot
\* has no index i.
C11_VelocityEstimate ==
    [][(StepCompletes /\ ~NoRangeData) =>
          \A i \in 1..Len(neighbors') :
              LET pos == neighbors'[i].position
                  n   == Len(neighbor_history)
              IN  neighbors'[i].velocity =
                      IF n < 2 \/ i > Len(neighbor_history[n - 1]) THEN <<0, 0>>
                      ELSE LET prev == neighbor_history[n - 1][i].position
                           IN  << ((pos[1] - prev[1]) * 1000000) \div 32,
                                  ((pos[2] - prev[2]) * 1000000) \div 32 >>]_vars

\* A step that saw the pair two steps after a step that saw one close
\* neighbor: index 1 moved 15 cm, index 2 has no earlier position.
C11_Witness ==
    /\ StepCompleted
    /\ Len(neighbor_history) >= 3
    /\ Len(neighbor_history[Len(neighbor_history) - 2]) = 1
    /\ Len(neighbors) = 2
    /\ neighbors[1].velocity = <<4687500, 0>>
    /\ neighbors[2].velocity = <<0, 0>>

\* C12: on a controller with a lidar (EPSILON starts at 0.6) the detection
\* sensitivity threshold is between 0.3 and 0.9 in every reachable state.
C12_EpsilonInBounds == has_lidar => (3 <= EPSILON /\ EPSILON <= 9)

\* The snapshots auto_tune_parameters averages in the step being taken: the
\* last (up to) 5 of the history held before the step.
TunedSnapshots ==
    LET n == Len(neighbor_history)
        k == Min(5, n)
    IN  [j \in 1..k |-> Len(neighbor_history[n - k + j])]

\* Their mean is below 1 (an empty history counts as a mean of 0).
TunedMeanBelowOne == TunedSnapshots = <<>> \/ SumSeq(TunedSnapshots) < Len(TunedSnapshots)

\* Their mean is above 4.
TunedMeanAboveFour == TunedSnapshots # <<>> /\ SumSeq(TunedSnapshots) > 4 * Len(TunedSnapshots)

\* C13: on a controller with a lidar the threshold changes only in steps whose
\* step count is a positive multiple of 200, and then by one 0.1 step: down
\* when the mean length of the last (up to) 5 snapshots recorded before the
\* step is below 1 and the threshold is above 0.3, up when that mean is above 4
\* and the threshold is below 0.9, unchanged otherwise.  The comparisons are on
\* the double the controller holds: after three decrements from 0.6 it holds
\* 0.30000000000000004 (3 tenths), which is above 0.3, and after three
\* increments 0.8999999999999999 (9 tenths), which is below 0.9.
C13_TuneEvery200 ==
    [][(StepCompletes /\ has_lidar) =>
          EPSILON' =
              IF step_count' % 200 = 0 /\ step_count' > 0
              THEN IF TunedMeanBelowOne /\ EPSILON >= 3 THEN EPSILON - 1
                   ELSE IF TunedMeanAboveFour /\ EPSILON <= 9 THEN EPSILON + 1
                   ELSE EPSILON
              ELSE EPSILON]_vars

\* After step 600: the first tuning went down from 0.6 to 0.5 on empty
\* snapshots, the second left 0.5 on mixed ones, the third went back up on
\* crowded ones.
C13_Witness ==
    /\ StepCompleted
    /\ step_count = 600
    /\ EPSILON = 6
    /\ scene = CrowdScene
    /\ Len(neighbor_history) = 10
    /\ Len(neighbor_history[10]) = 5

\* The step just taken ran the obstacle detection on a range image.
DetectionRan == StepCompleted /\ has_lidar

\* The range points of the last step that went into the clustering.
KeptPoints == drop_neighbor_points(scene.pts, neighbors)

\* p is at least 10 cm from every neighbor of the last step.
FarFromNeighbors(p) ==
    \A i \in 1..Len(neighbors) : ~Within(p, neighbors[i].position, 100)

\* The number of marked indices of a list of marks.
CountMarked(m) == SumSeq([i \in DOMAIN m |-> IF m[i] THEN 1 ELSE 0])

\* The mean of the marked points of pts (at least one is marked).
MeanOfMarked(pts, m) ==
    << SumSeq([i \in DOMAIN pts |-> IF m[i] THEN pts[i][1] ELSE 0]) \div CountMarked(m),
       SumSeq([i \in DOMAIN pts |-> IF m[i] THEN pts[i][2] ELSE 0]) \div CountMarked(m) >>

\* C14 as stated: no point of the obstacle list lies within 10 cm of a
\* neighbor of the step.
C14_NoObstacleNearNeighbor ==
    DetectionRan => \A j \in 1..Len(obstacles) : FarFromNeighbors(obstacles[j])

\* C14 amended: no range point within 10 cm of a neighbor contributes to the
\* obstacle list: every point of the list is the mean of one or more range
\* points of the step that are each at least 10 cm from every neighbor.
C14_NoNearPointClustered ==
    DetectionRan =>
        \A j \in 1..Len(obstacles) :
            \E m \in [1..Len(scene.pts) -> BOOLEAN] :
                /\ CountMarked(m) > 0
                /\ \A i \in 1..Len(scene.pts) : m[i] => FarFromNeighbors(scene.pts[i])
                /\ obstacles[j] = MeanOfMarked(scene.pts, m)

\* One range point was discarded as a neighbor, and the centroid of the two
\* others is 8 cm from that neighbor.
C14_Witness ==
    /\ DetectionRan
    /\ neighbors # <<>>
    /\ Len(scene.pts) = 3
    /\ Len(KeptPoints) = 2
    /\ obstacles = << <<70, 0>> >>
    /\ ~FarFromNeighbors(obstacles[1])

\* C15 as stated: a point joins the open cluster exactly when it is within
\* 15 cm of the cluster's running centroid, recomputed after each join.
C15_JoinsByRunningCentroid ==
    DetectionRan =>
        obstacles = (IF Len(KeptPoints) < 2 THEN KeptPoints
                     ELSE cluster_loop_running(KeptPoints))

\* The points of pts within 15 cm of its first point (the first point included).
NearFirst(pts) ==
    [i \in DOMAIN pts |-> Within(pts[1], pts[i], 150)]

\* The points of pts that are not within 15 cm of its first point, in order.
AfterFirstCluster(pts) ==
    SelectSeq(pts, LAMBDA q : ~Within(pts[1], q, 150))

\* C15 amended: a point joins the open cluster exactly when it is within 15 cm
\* of the cluster's FIRST point; the centroid is the mean of the members, taken
\* once when the pass is over.  Stated for the first cluster (over all kept
\* points) and the second one (over the points the first left out).
C15_JoinsByFirstPoint ==
    (DetectionRan /\ Len(KeptPoints) >= 2) =>
        /\ obstacles[1] = MeanOfMarked(KeptPoints, NearFirst(KeptPoints))
        /\ LET rest == AfterFirstCluster(KeptPoints)
           IN  IF rest = <<>> THEN Len(obstacles) = 1
               ELSE /\ Len(obstacles) >= 2
                    /\ obstacles[2] = MeanOfMarked(rest, NearFirst(rest))

\* Three points on a line at 0, 14 and 16 cm: the third is 16 cm from the
\* first one and 9 cm from the centroid of the first two, and opens a cluster
\* of its own.
C15_Witness ==
    /\ DetectionRan
    /\ KeptPoints = << <<0, 0>>, <<140, 0>>, <<160, 0>> >>
    /\ obstacles = << <<70, 0>>, <<160, 0>> >>

\* C16: clustering partitions its input.  There is an assignment of every
\* clustered point to exactly one output position such that no position is
\* left empty and each output point is the mean of the points assigned to it;
\* so a non-empty input gives between 1 and Len(input) centroids, and an input
\* of fewer than 2 points is returned unchanged.
C16_ClusteringPartitions ==
    DetectionRan =>
        LET n == Len(KeptPoints)
            k == Len(obstacles)
        IN  /\ n < 2 => obstacles = KeptPoints
            /\ n >= 1 => (1 <= k /\ k <= n)
            /\ \E a \in [1..n -> 1..k] :
                   \A j \in 1..k :
                       LET m == [i \in 1..n |-> a[i] = j]
                       IN  /\ CountMarked(m) > 0
                           /\ obstacles[j] = MeanOfMarked(KeptPoints, m)

\* Three points, two clusters: the first and the third point share one.
C16_Witness ==
    /\ DetectionRan
    /\ Len(KeptPoints) = 3
    /\ Len(obstacles) = 2
    /\ Within(KeptPoints[1], KeptPoints[3], 150)
    /\ ~Within(KeptPoints[1], KeptPoints[2], 150)

\* C17 as stated: clustering the centroid list again yields the same list.
C17_ClusteringIdempotent ==
    DetectionRan => cluster_obstacles(obstacles) = obstacles

\* The points of the obstacle list are pairwise at least 15 cm apart.
CentroidsApart ==
    \A i, j \in 1..Len(obstacles) : i < j => ~Within(obstacles[i], obstacles[j], 150)

\* C17 amended: clustering the centroid list again yields the same list
\* exactly when its centroids are pairwise at least 15 cm apart, which the
\* first clustering does not ensure.
C17_IdempotentWhenApart ==
    DetectionRan => ((cluster_obstacles(obstacles) = obstacles) <=> CentroidsApart)

\* Two centroids, one of them a merged pair, 21 cm apart.
C17_Witness ==
    /\ DetectionRan
    /\ Len(KeptPoints) = 3
    /\ obstacles = << <<70, 0>>, <<280, 0>> >>
    /\ CentroidsApart

\* The wheel command convert_to_motor_commands gave in the last step, before
\* smoothing.
RawCommand == convert_to_motor_commands(force, 60)

\* C18: after conversion, clamping and smoothing, neither wheel velocity
\* commanded to the motors exceeds max_velocity = 60 in magnitude.
C18_WheelVelocityClamped ==
    Abs(last_vel[1]) <= 60000 /\ Abs(last_vel[2]) <= 60000

\* A step whose net force asks for more than 60 on the left wheel (full speed
\* and a turn of more than 1 rad): the command before smoothing was scaled to
\* exactly 60, and after repeated such steps the smoothed command is near it.
C18_Witness ==
    /\ StepCompleted
    /\ desired_speed(force) = 1000
    /\ Atan2Milli(force[1], force[2]) > 1000
    /\ RawCommand[1] = 60000
    /\ last_vel[1] > 59000

\* The neighbors of the step being taken that are closer than 8 cm.
CloseNeighborsOfStep ==
    {i \in 1..Len(neighbors') : Within(neighbors'[i].position, Origin, 80)}

\* C19: a control step adds exactly 0.1 to the collision count for every
\* neighbor of the step closer than 8 cm and nothing else: the count is
\* unchanged in a step without such a neighbor, whatever the obstacles.
C19_CollisionCount ==
    [][StepCompletes =>
          performance_metrics'.collision_count =
              performance_metrics.collision_count + Cardinality(CloseNeighborsOfStep)]_vars

\* Two steps with a neighbor at 5 cm, then a step with an obstacle at 11 cm and
\* no close neighbor: the count is 0.2.
C19_Witness ==
    /\ StepCompleted
    /\ step_count = 3
    /\ performance_metrics.collision_count = 2
    /\ \E j \in 1..Len(obstacles) : Within(obstacles[j], Origin, 120)
    /\ \A i \in 1..Len(neighbors) : ~Within(neighbors[i].position, Origin, 80)

\* C20: no operation of the controller decreases a performance metric.
C20_MetricsNeverDecrease ==
    [][\A k \in DOMAIN performance_metrics :
          performance_metrics'[k] >= performance_metrics[k]]_vars

\* Steps have raised the formation time, the collision count and the
\* exploration coverage, and a mode switch followed them.
C20_Witness ==
    /\ last_call.op = "switch_mission_mode"
    /\ mission_mode = "following"
    /\ performance_metrics.time_in_formation >= 1
    /\ performance_metrics.collision_count >= 1
    /\ performance_metrics.exploration_coverage >= 30
    /\ performance_metrics.distance_traveled = 0

\* The state the control core keeps from one step to the next.
Core == <<mission_mode, formation_type, EPSILON, neighbor_history,
          performance_metrics, last_vel>>

\* The core state a step on the sample sc leaves on a controller without a
\* display that starts the step in the current core state.
HeadlessCore(sc) ==
    LET step == step_count + 1
        tune == auto_tune_parameters(step, neighbor_history, has_lidar, EPSILON)
        det  == detect_neighbors(has_lidar, CHUHABOT_FUNCTIONS_AVAILABLE,
                                 step, neighbor_history, sc.nbrs)
        nbrs == det.neighbors
        obs  == intelligent_obstacle_detection(has_lidar, sc.pts, nbrs)
        q1   == detect_formation_quality(nbrs, formation_type)
        ft   == adapt_formation_type(formation_type, nbrs)
        q2   == detect_formation_quality(nbrs, ft)
        bhv  == update_weights(behaviors, mission_weights(mission_mode, nbrs, q1))
        f    == apply_emergency_behaviors(calculate_movement(bhv, nbrs, obs), nbrs, obs)
        m1   == [performance_metrics EXCEPT
                    !.time_in_formation = @ + (IF q1 > 700 THEN 1 ELSE 0),
                    !.collision_count   = @ + close_neighbors(nbrs)]
    IN  IF tune.raises
        THEN Core
        ELSE <<auto_switch_mission_mode(mission_mode, step, nbrs, q2), ft,
               tune.EPSILON, det.history, update_performance_metrics(m1, nbrs, q2),
               smooth_motor_commands(convert_to_motor_commands(f, 60), last_vel)>>

\* The step of a display-less controller from the current state raises.
HeadlessRaises ==
    auto_tune_parameters(step_count + 1, neighbor_history, has_lidar, EPSILON).raises

\* C21: two controllers fed the same sensor sequence, one with a display and
\* one without, agree on mission mode, formation type, sensitivity threshold,
\* neighbor history, metrics and wheel velocities after every step, also when
\* drawing fails. Both start in the same core state, so it is enough that every
\* step of a controller, with a display or without, drawing or failing to draw,
\* returns as the step of a display-less controller does and leaves the core
\* state that step leaves from the same core state and sample.
C21_DisplayIndependent ==
    [][last_call'.op = "run_step" =>
          /\ Core' = HeadlessCore(scene')
          /\ status' = (IF HeadlessRaises THEN "error" ELSE "running")]_vars

\* A controller with a display has taken steps that changed its formation
\* type, its metrics and its wheel command, and the drawing of the last step
\* failed.
C21_Witness ==
    /\ StepCompleted
    /\ has_display /\ ~display_frame
    /\ step_count >= 2
    /\ formation_type = "line"
    /\ last_vel # <<0, 0>>
    /\ performance_metrics.exploration_coverage > 0

\* The behaviour types update_weights assigns a weight to.
WeightedTypes == {"separation", "alignment", "cohesion", "obstacle_avoidance", "formation"}

\* C22: exactly one weight profile is active and it is replaced as a whole:
\* the controller's profile is a complete profile, the registered behaviours
\* are the five weighted types, and each of them carries the weight of the
\* matching field of the current profile, so none holds a weight of an earlier
\* profile.
C22_ProfileReplacedWhole ==
    /\ DOMAIN weights = DOMAIN DefaultWeights
    /\ DOMAIN behaviors = WeightedTypes
    /\ \A t \in WeightedTypes : behaviors[t].weight = weights[t]

\* A step in formation mode after a step in exploration mode: every weight of
\* the exploration profile has been replaced.
C22_Witness ==
    /\ StepCompleted
    /\ step_count >= 2
    /\ mission_mode = "formation"
    /\ weights.separation = 150000 /\ behaviors.separation.weight = 150000
    /\ weights.formation >= 250000 /\ behaviors.formation.weight = weights.formation
    /\ weights.exploration = 50000

\* C23: after the formation-type adaptation of any control step, not only at
\* the 800-step boundaries, the formation type is circle if the step saw four
\* or more neighbors, line if it saw two or three, and the type of the previous
\* step if it saw none or one.
C23_FormationTypeAdapts ==
    [][StepCompletes =>
          formation_type' = (IF Len(neighbors') >= 4 THEN "circle"
                             ELSE IF Len(neighbors') >= 2 THEN "line"
                             ELSE formation_type)]_vars

\* The fourth step sees at most one neighbor and keeps the line chosen by an
\* earlier step with two neighbors. The formation time of 3 tells that another
\* earlier step saw four neighbors and chose the circle: without it the type
\* stays line after the first step with two neighbors and the quality never
\* exceeds 0.7 again.
C23_Witness ==
    /\ StepCompleted
    /\ has_lidar /\ CHUHABOT_FUNCTIONS_AVAILABLE
    /\ step_count = 4
    /\ Len(neighbors) <= 1
    /\ formation_type = "line"
    /\ performance_metrics.time_in_formation = 3

\* C24: the formation type selected by the mission state machine is the one the
\* Formation behaviour uses: whenever a control step starts, also after a
\* change of the formation type, the registered Formation behaviour's formation
\* type equals the controller's formation type.
C24_BehaviorUsesFormationType ==
    behaviors.formation.formation_type = formation_type

\* The formation quality adapt_behavior_to_mission computes in the step being
\* taken, before the formation type is adapted.
AdaptQuality == detect_formation_quality(neighbors', formation_type)

\* C25 as stated: for a formation type other than circle (line, v_shape) the
\* formation quality is 0.5 for every neighbor list, whatever its length. Both
\* qualities a control step computes are covered.
C25_FixedQualityOffCircle ==
    [][StepCompletes =>
          /\ formation_type # "circle" => AdaptQuality = 500
          /\ formation_type' # "circle" => StepQuality = 500]_vars

\* The quality of a formation type other than circle for n neighbors.
OffCircleQuality(n) == IF n >= 2 THEN 500 ELSE 0

\* C25, amended: for a formation type other than circle the formation quality
\* is 0.5 for every list of two or more neighbors and 0 for a list of fewer
\* than two.
C25_FixedQualityFromTwo ==
    [][StepCompletes =>
          /\ formation_type # "circle" => AdaptQuality = OffCircleQuality(Len(neighbors'))
          /\ formation_type' # "circle" => StepQuality = OffCircleQuality(Len(neighbors'))]_vars

\* The step after main has switched the formation to v_shape sees no neighbor:
\* the type stays v_shape and the quality of the step is 0.
C25_Witness ==
    /\ StepCompleted
    /\ step_count = 1001
    /\ formation_type = "v_shape"
    /\ neighbors = <<>>
    /\ detect_formation_quality(neighbors, formation_type) = 0

\* Values tried for the exploration and leader_following weights.
AltWeights == {0, 150000, 400000}

\* The profiles that differ from the active one at most in the exploration and
\* leader_following weights.
AltProfiles ==
    {[weights EXCEPT !.exploration = e, !.leader_following = l] :
        e \in AltWeights, l \in AltWeights}

C27_FallbackTuning ==
    [][(StepCompletes /\ has_lidar /\ ~CHUHABOT_FUNCTIONS_AVAILABLE) =>
          /\ neighbor_history' = <<>>
          /\ EPSILON' = (IF step_count' % 200 = 0 /\ step_count' > 0 /\ EPSILON > 3
                         THEN EPSILON - 1
                         ELSE EPSILON)]_vars

\* The mission mode whose branch of adapt_behavior_to_mission builds the profile
\* w; "default" is the branch of a mode without one, which following mode takes
\* without a neighbor.
ProfileMode(w) ==
    IF w.alignment = 80000 THEN "exploration"
    ELSE IF w.separation = 150000 THEN "formation"
    ELSE IF w.alignment = 150000 THEN "following"
    ELSE IF w.alignment = 120000 THEN "patrol"
    ELSE IF w.alignment = 250000 THEN "search"
    ELSE "default"

\* C28: within one control step the weight profile is the one of the mission
\* mode held at the start of the step, the forces and the wheel command are
\* computed with the behaviours carrying that profile and this step's
\* neighbors, and the automatic mode switch runs last: the mode a step
\* switches to does not affect the force or wheel command of that step and
\* first shows in the profile of the next step.
C28_WeightsFromStartMode ==
    [][StepCompletes =>
          /\ ProfileMode(weights') =
                 (IF mission_mode = "following" /\ neighbors' = <<>>
                  THEN "default" ELSE mission_mode)
          /\ \A t \in DOMAIN behaviors' : behaviors'[t].weight = weights'[t]
          /\ force' = apply_emergency_behaviors(
                          calculate_movement(behaviors', neighbors', obstacles'),
                          neighbors', obstacles')
          /\ last_vel' = smooth_motor_commands(
                             convert_to_motor_commands(force', 60), last_vel)]_vars

\* Step 800 has switched from exploration to formation mode and its profile is
\* still the exploration profile.
C28_Witness ==
    /\ StepCompleted
    /\ step_count = 800
    /\ mission_mode = "formation"
    /\ ProfileMode(weights) = "exploration"
    /\ force # <<0, 0>>

\* C29: the time-in-formation metric increases by at most 1 per control step:
\* by 1 in a step whose formation quality exceeds 0.7 and by 0 otherwise.
C29_TimeInFormationByOne ==
    [][StepCompletes =>
          performance_metrics'.time_in_formation =
              performance_metrics.time_in_formation
                  + (IF StepQuality > 700 THEN 1 ELSE 0)]_vars

\* The robots registered before the step that are not the sender s and whose
\* distance to it is at most 0.5 m.
WithinHalfMetre(s) ==
    {i \in DOMAIN robots \ {s} :
        LET dx == robots[i].position[1] - robots[s].position[1]
            dy == robots[i].position[2] - robots[s].position[2]
        IN  dx * dx + dy * dy <= 250000}

\* The step appends exactly one message, of type t, to the buffer of robot i.
AppendsOne(i, t) ==
    /\ Len(message_buffer'[i]) = Len(message_buffer[i]) + 1
    /\ SubSeq(message_buffer'[i], 1, Len(message_buffer[i])) = message_buffer[i]
    /\ message_buffer'[i][Len(message_buffer'[i])].type = t

\* C30: in the hybrid swarm controller a broadcast of a registered sender
\* appends exactly one message to the buffer of every other registered robot
\* whose distance to the sender is at most the communication range, and leaves
\* the sender's own buffer and the buffers of the robots out of range
\* unchanged; after every register_robot and every broadcast the set of buffer
\* keys is the set of registered robot ids.
C30_BroadcastWithinRange ==
    [][/\ DOMAIN message_buffer' = DOMAIN robots'
       /\ (last_call'.op = "cross_platform_communication" /\ last_call'.arg \in DOMAIN robots)
             => \E m \in Messages :
                   \A i \in DOMAIN robots :
                       IF i \in WithinHalfMetre(last_call'.arg)
                       THEN AppendsOne(i, m.type)
                       ELSE message_buffer'[i] = message_buffer[i]]_vars

\* A broadcast of chuha_0 with all three robots registered: the e-puck exactly
\* 0.5 m away has received its second message, cut to 50 characters, and the
\* robot 0.6 m away has received none; the sender holds a message of an earlier
\* broadcast by another robot.
C30_Witness ==
    /\ last_call.op = "cross_platform_communication"
    /\ last_call.arg = "chuha_0"
    /\ DOMAIN robots = RobotIds
    /\ robots["chuha_0"].position = <<0, 0>>
    /\ robots["epuck_1"].position = <<500, 0>>
    /\ robots["chuha_2"].position = <<600, 0>>
    /\ Len(message_buffer["epuck_1"]) = 2
    /\ message_buffer["epuck_1"][2] = [type |-> "info", data |-> 50]
    /\ message_buffer["chuha_2"] = <<>>
    /\ Len(message_buffer["chuha_0"]) = 1

============================================================================
